---- MODULE Spec2Model ----
(***************************************************************************)
(* Model of the research aggregation service                               *)
(* (services/agentic_research_service.py) and of the outline streaming     *)
(* endpoint (api/v1/ppt/endpoints/outlines.py).                            *)
(*                                                                         *)
(* Text is modelled as a sequence of string tokens: concatenation of text  *)
(* is \o, the empty string is <<>>.  URLs, titles and contents are single  *)
(* strings taken from small sets.                                          *)
(***************************************************************************)
EXTENDS Integers, Sequences, FiniteSets, TLC

VARIABLES
    \* ---- AgenticResearchService.run ----
    outcome,        \* adapter -> how its coroutine settled
    results,        \* adapter -> what its coroutine returned to gather
    finished,       \* adapters in the order their coroutines completed
    rpc,            \* position of run: "gather", "returned", "raised"
    bundle,         \* the value run returned
    \* ---- stream_outlines.inner ----
    presentation,   \* the PresentationModel row held by the request
    db,             \* what is committed in the database for that row
    pc,             \* position of the event generator
    events,         \* the events yielded so far, in order
    additional_context,
    research_context,
    final_context,
    n_slides_to_generate,
    generator_args, \* the arguments generate_ppt_outline was called with
    consumed,       \* what the outline generator has delivered so far
    presentation_outlines_text,
    commits         \* number of successful sql_session.commit() calls

researchVars == <<outcome, results, finished, rpc, bundle>>
streamVars == <<presentation, db, pc, events, additional_context,
                research_context, final_context, n_slides_to_generate,
                generator_args, consumed, presentation_outlines_text, commits>>
vars == <<outcome, results, finished, rpc, bundle,
          presentation, db, pc, events, additional_context,
          research_context, final_context, n_slides_to_generate,
          generator_args, consumed, presentation_outlines_text, commits>>

----------------------------------------------------------------------------
(* Bounds *)

\* longest raw result list an external source answers with
MaxItems == 2
\* largest number of generator deliveries (chunks or an error signal)
MaxChunks == 3
\* largest requested slide count (presentation.n_slides)
MaxSlides == 21

----------------------------------------------------------------------------
(* Generic helpers *)

Min(a, b) == IF a < b THEN a ELSE b

Max(a, b) == IF a > b THEN a ELSE b

SeqsUpTo(S, n) == UNION {[1..k -> S] : k \in 0..n}

RECURSIVE Flatten(_)
Flatten(ss) == IF ss = <<>> THEN <<>> ELSE Head(ss) \o Flatten(Tail(ss))

\* s is obtained from t by deleting elements (order kept)
RECURSIVE IsSubseq(_, _)
IsSubseq(s, t) ==
    IF s = <<>> THEN TRUE
    ELSE IF t = <<>> THEN FALSE
    ELSE IF Head(s) = Head(t) THEN IsSubseq(Tail(s), Tail(t))
    ELSE IsSubseq(s, Tail(t))

\* Python's sep.join(parts), parts being texts
RECURSIVE Join(_, _)
Join(sep, parts) ==
    IF parts = <<>> THEN <<>>
    ELSE IF Len(parts) = 1 THEN Head(parts)
    ELSE Head(parts) \o sep \o Join(sep, Tail(parts))

\* Python's s[:n] for a list s and an integer n (negative n counts from the end)
Slice(s, n) ==
    IF n >= 0 THEN SubSeq(s, 1, Min(n, Len(s)))
    ELSE SubSeq(s, 1, Max(Len(s) + n, 0))

----------------------------------------------------------------------------
(* AgenticResearchService: the three source adapters *)

TAVILY_API_KEY == "YOUR_TAVILY_API_KEY_HERE"

Adapters == {"tavily", "wikipedia", "archive"}

\* the order of the coroutines in the asyncio.gather call
Registration == <<"tavily", "wikipedia", "archive">>

WikiTopK == 3

WikiUrlA == "https://en.wikipedia.org/wiki/A_B"

\* title.replace(' ', '_') on the titles of the model
Underscored(title) == IF title = "A B" THEN "A_B" ELSE title

\* f"https://en.wikipedia.org/wiki/{title.replace(' ', '_')}"
WikiPageUrl(title) ==
    IF Underscored(title) = "A_B" THEN WikiUrlA
    ELSE "https://en.wikipedia.org/wiki/other"

\* snippet.replace('<span class="searchmatch">', "").replace("</span>", "")
StripMarkup(snippet) ==
    IF snippet = "<span class=\"searchmatch\">hit</span> text" THEN "hit text"
    ELSE snippet

\* f"https://archive.org/details/{identifier}"
ArchivePageUrl(identifier) ==
    IF identifier = "id1" THEN "https://archive.org/details/id1"
    ELSE "https://archive.org/details/"

\* str(description)[:500]
Truncate500(description) ==
    IF description = "description of 600 chars" THEN "description cut at 500 chars"
    ELSE description

\* the entries of data["results"] (an absent key reads as "")
TavilyRaw == [title: {"Web"}, content: {"w"},
              url: {"", WikiUrlA, "https://example.com/x"}]

\* the entries of data["query"]["search"]
WikipediaRaw == [title: {"A B", "A_B"},
                 snippet: {"<span class=\"searchmatch\">hit</span> text"}]

\* the entries of data["response"]["docs"]
ArchiveRaw == [identifier: {"id1"}, title: {"Paper"},
               description: {"description of 600 chars"}]

\* what an HTTP exchange can come to: a 200 answer with decoded data, a
\* non-200 status, or an exception (transport error, timeout, bad payload)
Responses(Raw) ==
    {[how |-> "ok", data |-> d] : d \in SeqsUpTo(Raw, MaxItems)}
    \cup {[how |-> "status", data |-> <<>>], [how |-> "exc", data |-> <<>>]}

ListResult(items) == [kind |-> "list", items |-> items]

search_tavily(resp) ==
    IF TAVILY_API_KEY = "" THEN ListResult(<<>>)
    ELSE IF resp.how = "status" THEN ListResult(<<>>)
    ELSE IF resp.how = "exc" THEN ListResult(<<>>)
    ELSE ListResult([i \in 1..Len(resp.data) |->
            [title |-> resp.data[i].title,
             content |-> resp.data[i].content,
             url |-> resp.data[i].url]])

search_wikipedia(resp) ==
    IF resp.how = "status" THEN ListResult(<<>>)
    ELSE IF resp.how = "exc" THEN ListResult(<<>>)
    ELSE LET top == Slice(resp.data, WikiTopK) IN
         ListResult([i \in 1..Len(top) |->
            [title |-> top[i].title,
             content |-> StripMarkup(top[i].snippet),
             url |-> WikiPageUrl(top[i].title)]])

search_archive(resp) ==
    IF resp.how = "status" THEN ListResult(<<>>)
    ELSE IF resp.how = "exc" THEN ListResult(<<>>)
    ELSE ListResult([i \in 1..Len(resp.data) |->
            [title |-> resp.data[i].title,
             content |-> Truncate500(resp.data[i].description),
             url |-> ArchivePageUrl(resp.data[i].identifier)]])

----------------------------------------------------------------------------
(* AgenticResearchService.run *)

\* asyncio.gather(..., return_exceptions=True): the results in the order of
\* the awaitables passed, whatever the completion order
GatherInCompletionOrder(res, done) == [i \in 1..3 |-> res[done[i]]]

Gather(res, done) == [i \in 1..3 |-> res[Registration[i]]]

\* for result in results: if isinstance(result, list): collected.extend(result)
RECURSIVE Collect(_)
Collect(gathered) ==
    IF gathered = <<>> THEN <<>>
    ELSE (IF Head(gathered).kind = "list" THEN Head(gathered).items ELSE <<>>)
         \o Collect(Tail(gathered))

\* the dict unique_results, as its values in insertion order
RECURSIVE UniqueKeepAll(_, _)
UniqueKeepAll(collected, unique) ==
    IF collected = <<>> THEN unique
    ELSE UniqueKeepAll(Tail(collected),
            IF Head(collected).url # "" THEN Append(unique, Head(collected))
            ELSE unique)

RECURSIVE UniqueResults(_, _)
UniqueResults(collected, unique) ==
    IF collected = <<>> THEN unique
    ELSE LET item == Head(collected)
             url == item.url
         IN UniqueResults(Tail(collected),
                IF url # "" /\ ~\E i \in 1..Len(unique) : unique[i].url = url
                THEN Append(unique, item)
                ELSE unique)

\* the f-string block of one item
Block(item) == <<"Title: ", item.title, "\n",
                 "Content: ", item.content, "\n",
                 "Source: ", item.url, "\n">>

EmptyBundle == [raised |-> FALSE, summary |-> <<>>, sources |-> <<>>]

BuildBundleRaisingOnEmpty(final_results) ==
    IF final_results = <<>>
    THEN [raised |-> TRUE, summary |-> <<>>, sources |-> <<>>]
    ELSE [raised |-> FALSE,
          summary |-> Join(<<"\n\n">>,
                           [i \in 1..Len(final_results) |-> Block(final_results[i])]),
          sources |-> [i \in 1..Len(final_results) |->
                          [title |-> final_results[i].title,
                           url |-> final_results[i].url]]]

BuildBundle(final_results) ==
    IF final_results = <<>> THEN EmptyBundle
    ELSE [raised |-> FALSE,
          summary |-> Join(<<"\n\n">>,
                           [i \in 1..Len(final_results) |-> Block(final_results[i])]),
          sources |-> [i \in 1..Len(final_results) |->
                          [title |-> final_results[i].title,
                           url |-> final_results[i].url]]]

\* the body of run after the gather
RunResult(gathered) == BuildBundle(UniqueResults(Collect(gathered), <<>>))

Pending == [kind |-> "pending", items |-> <<>>]

ResearchInit ==
    /\ outcome = [a \in Adapters |-> "pending"]
    /\ results = [a \in Adapters |-> Pending]
    /\ finished = <<>>
    /\ rpc = "gather"
    /\ bundle = EmptyBundle

Settle(a, resp, result) ==
    /\ rpc = "gather"
    /\ outcome[a] = "pending"
    /\ outcome' = [outcome EXCEPT ![a] = resp.how]
    /\ results' = [results EXCEPT ![a] = result]
    /\ finished' = Append(finished, a)
    /\ UNCHANGED <<rpc, bundle>>

SearchTavily ==
    /\ \E resp \in Responses(TavilyRaw) : Settle("tavily", resp, search_tavily(resp))
    /\ UNCHANGED streamVars

SearchWikipedia ==
    /\ \E resp \in Responses(WikipediaRaw) :
          Settle("wikipedia", resp, search_wikipedia(resp))
    /\ UNCHANGED streamVars

SearchArchive ==
    /\ \E resp \in Responses(ArchiveRaw) : Settle("archive", resp, search_archive(resp))
    /\ UNCHANGED streamVars

\* run resumes once every awaitable of the gather has settled
Run ==
    /\ rpc = "gather"
    /\ Len(finished) = 3
    /\ LET r == RunResult(Gather(results, finished)) IN
          /\ bundle' = r
          /\ rpc' = IF r.raised THEN "raised" ELSE "returned"
    /\ UNCHANGED <<outcome, results, finished>>
    /\ UNCHANGED streamVars

----------------------------------------------------------------------------
(* stream_outlines: values and pure steps *)

\* a Python value that is either a str or the dict returned by run
PyStr(text) == [kind |-> "str", text |-> text, summary |-> <<>>, sources |-> <<>>]

PyDict(b) == [kind |-> "dict", text |-> <<>>, summary |-> b.summary, sources |-> b.sources]

\* Python truth value: a str is true when non-empty; the dict returned by run
\* always has its two keys, so it is true
Truthy(v) == IF v.kind = "str" THEN v.text # <<>> ELSE TRUE

StatusGenerating == "Generating presentation outlines..."

StatusLoading == "Loading uploaded documents..."

StatusResearching == "Running agentic research (web + wikipedia + archive)..."

StatusFound == "Research completed. Enhancing outline generation..."

StatusNoneFound == "No external research found. Continuing..."

StatusFailed == "Research failed. Continuing without external context."

NoValue == <<>>

Status(message) == [type |-> "status", data |-> <<message>>, value |-> NoValue]

ChunkEvent(chunk) == [type |-> "chunk", data |-> chunk, value |-> NoValue]

ErrorEvent(detail) == [type |-> "error", data |-> detail, value |-> NoValue]

CompleteEvent(row) == [type |-> "complete", data |-> <<"presentation">>, value |-> <<row>>]

\* final_context of lines 96-103; raised: the str + dict concatenation fails
MergeContext(additional, research) ==
    IF ~Truthy(research) THEN [raised |-> FALSE, text |-> additional]
    ELSE IF research.kind # "str" THEN [raised |-> TRUE, text |-> <<>>]
    ELSE [raised |-> FALSE,
          text |-> (IF additional # <<>> THEN additional \o <<"\n\n">> ELSE <<>>)
                   \o <<"External Research Context:\n">> \o research.text]

\* math.ceil(x / 10)
FloorDiv10(x) == x \div 10

CeilDiv10(x) == -((-x) \div 10)

TargetSlidesLessTocPages(n_slides, include_table_of_contents) ==
    IF include_table_of_contents
    THEN LET needed_toc_count == CeilDiv10(n_slides - 1)
         IN n_slides - needed_toc_count - CeilDiv10(n_slides - needed_toc_count)
    ELSE n_slides

\* n_slides_to_generate of lines 108-114
TargetSlides(n_slides, include_table_of_contents) ==
    IF include_table_of_contents
    THEN LET needed_toc_count == CeilDiv10(n_slides - 1)
         IN n_slides - CeilDiv10(n_slides - needed_toc_count)
    ELSE n_slides

\* Tokens of the generated text: the opening of the outline object up to its
\* slide list, the closing of list and object, well-formed slide entries, and
\* an entry that is valid structured data but no slide
OpenOutline == "{\"slides\": ["

CloseOutline == "]}"

SlideTokens == {"slide a", "slide b", "slide c"}

NotASlide == "7"

\* the text fragments the outline generator can deliver
Chunks == { <<OpenOutline, "slide a">>, <<"slide b">>,
            <<"slide c", CloseOutline>>, <<CloseOutline>>, <<NotASlide>> }

ErrorDetails == {<<"LLM unavailable">>, <<"Rate limited">>}

Inner(text) == SubSeq(text, 2, Len(text) - 1)

\* dict(dirtyjson.loads(text)): "syntax" when the text is no object
WellFormed(text) ==
    /\ Len(text) >= 2
    /\ text[1] = OpenOutline
    /\ text[Len(text)] = CloseOutline
    /\ \A i \in 1..Len(Inner(text)) : Inner(text)[i] \in SlideTokens \cup {NotASlide}

\* PresentationOutlineModel(**json): the entries must all be slides
ValidOutline(text) == \A i \in 1..Len(Inner(text)) : Inner(text)[i] \in SlideTokens

ParseOutcome(text) ==
    IF ~WellFormed(text) THEN "syntax"
    ELSE IF ~ValidOutline(text) THEN "invalid"
    ELSE "ok"

ParsedSlides(text) == Inner(text)

ParseErrorDetail ==
    <<"Failed to generate presentation outlines. Please try again. ", "Expecting value">>

\* get_presentation_title_from_outlines
TitleFromOutlines(slides) == IF slides = <<>> THEN "Untitled Presentation" ELSE Head(slides)

\* documents_loader.documents after a successful load
DocumentLists == { <<>>, << <<"doc 1">>, <<"doc 2">> >> }

\* the answers of the three sources during a stream
StreamResponses ==
    { <<[how |-> "exc", data |-> <<>>], [how |-> "status", data |-> <<>>],
        [how |-> "exc", data |-> <<>>]>>,
      <<[how |-> "ok", data |-> <<[title |-> "Web", content |-> "w",
                                   url |-> "https://example.com/x"]>>],
        [how |-> "status", data |-> <<>>], [how |-> "exc", data |-> <<>>]>> }

----------------------------------------------------------------------------
(* stream_outlines.inner: the event generator, one action per stretch of    *)
(* code between two suspension points                                       *)

NotCalled == <<>>

Rows == [file_paths: {<<>>, <<"upload.pdf">>},
         web_search: BOOLEAN,
         n_slides: 1..MaxSlides,
         include_table_of_contents: BOOLEAN,
         outlines: {<<>>},
         title: {<<>>}]

Stored(row) == [outlines |-> row.outlines, title |-> row.title]

StreamInit ==
    /\ presentation \in Rows
    /\ db = Stored(presentation)
    /\ pc = "start"
    /\ events = <<>>
    /\ additional_context = <<>>
    /\ research_context = PyStr(<<>>)
    /\ final_context = <<>>
    /\ n_slides_to_generate = 0
    /\ generator_args = NotCalled
    /\ consumed = <<>>
    /\ presentation_outlines_text = <<>>
    /\ commits = 0

Emit(e) == events' = Append(events, e)

\* lines 41-43
Begin ==
    /\ pc = "start"
    /\ Emit(Status(StatusGenerating))
    /\ pc' = "attachments"
    /\ UNCHANGED <<presentation, db, additional_context, research_context,
                   final_context, n_slides_to_generate, generator_args, consumed,
                   presentation_outlines_text, commits>>
    /\ UNCHANGED researchVars

\* lines 50-53
LoadStatus ==
    /\ pc = "attachments"
    /\ presentation.file_paths # <<>>
    /\ Emit(Status(StatusLoading))
    /\ pc' = "loading"
    /\ UNCHANGED <<presentation, db, additional_context, research_context,
                   final_context, n_slides_to_generate, generator_args, consumed,
                   presentation_outlines_text, commits>>
    /\ UNCHANGED researchVars

\* lines 55-60, load_documents returning
LoadDocuments ==
    /\ pc = "loading"
    /\ \E documents \in DocumentLists :
          additional_context' =
              IF documents # <<>> THEN Join(<<"\n\n">>, documents) ELSE <<>>
    /\ pc' = "research"
    /\ UNCHANGED <<presentation, db, events, research_context,
                   final_context, n_slides_to_generate, generator_args, consumed,
                   presentation_outlines_text, commits>>
    /\ UNCHANGED researchVars

\* line 56, load_documents raising: nothing catches it, the generator ends
\* with the exception
LoadDocumentsRaises ==
    /\ pc = "loading"
    /\ pc' = "aborted"
    /\ UNCHANGED <<presentation, db, events, additional_context, research_context,
                   final_context, n_slides_to_generate, generator_args, consumed,
                   presentation_outlines_text, commits>>
    /\ UNCHANGED researchVars

AtResearch ==
    \/ pc = "research"
    \/ pc = "attachments" /\ presentation.file_paths = <<>>

\* lines 67-70
ResearchStatus ==
    /\ AtResearch
    /\ presentation.web_search
    /\ Emit(Status(StatusResearching))
    /\ pc' = "researching"
    /\ UNCHANGED <<presentation, db, additional_context, research_context,
                   final_context, n_slides_to_generate, generator_args, consumed,
                   presentation_outlines_text, commits>>
    /\ UNCHANGED researchVars

\* lines 72-85, run returning
ResearchReturns ==
    /\ pc = "researching"
    /\ \E resp \in StreamResponses :
          LET res == [a \in Adapters |->
                         IF a = "tavily" THEN search_tavily(resp[1])
                         ELSE IF a = "wikipedia" THEN search_wikipedia(resp[2])
                         ELSE search_archive(resp[3])]
              returned == PyDict(RunResult(Gather(res, Registration)))
          IN /\ research_context' = returned
             /\ Emit(Status(IF Truthy(returned) THEN StatusFound ELSE StatusNoneFound))
    /\ pc' = "merge"
    /\ UNCHANGED <<presentation, db, additional_context,
                   final_context, n_slides_to_generate, generator_args, consumed,
                   presentation_outlines_text, commits>>
    /\ UNCHANGED researchVars

ResearchRaisesEndsStream ==
    /\ pc = "researching"
    /\ Emit(Status(StatusFailed))
    /\ pc' = "aborted"
    /\ UNCHANGED <<presentation, db, additional_context, research_context,
                   final_context, n_slides_to_generate, generator_args, consumed,
                   presentation_outlines_text, commits>>
    /\ UNCHANGED researchVars

\* lines 72-76 raising, 87-91
ResearchRaises ==
    /\ pc = "researching"
    /\ Emit(Status(StatusFailed))
    /\ pc' = "merge"
    /\ UNCHANGED <<presentation, db, additional_context, research_context,
                   final_context, n_slides_to_generate, generator_args, consumed,
                   presentation_outlines_text, commits>>
    /\ UNCHANGED researchVars

AtMerge ==
    \/ pc = "merge"
    \/ AtResearch /\ ~presentation.web_search

\* lines 96-103 raising: nothing catches it
MergeRaises ==
    /\ AtMerge
    /\ MergeContext(additional_context, research_context).raised
    /\ pc' = "aborted"
    /\ UNCHANGED <<presentation, db, events, additional_context, research_context,
                   final_context, n_slides_to_generate, generator_args, consumed,
                   presentation_outlines_text, commits>>
    /\ UNCHANGED researchVars

\* lines 96-131: merge, slide count, the call of generate_ppt_outline
StartGenerating ==
    /\ AtMerge
    /\ LET merged == MergeContext(additional_context, research_context)
           target == TargetSlides(presentation.n_slides,
                                  presentation.include_table_of_contents)
       IN /\ ~merged.raised
          /\ final_context' = merged.text
          /\ n_slides_to_generate' = target
          /\ generator_args' = <<[n_slides |-> target, context |-> merged.text]>>
    /\ pc' = "generating"
    /\ UNCHANGED <<presentation, db, events, additional_context, research_context,
                   consumed, presentation_outlines_text, commits>>
    /\ UNCHANGED researchVars

GeneratorChunkNotForwarded ==
    /\ pc = "generating"
    /\ Len(consumed) < MaxChunks
    /\ \E chunk \in Chunks :
          /\ consumed' = Append(consumed, [kind |-> "chunk", data |-> chunk])
          /\ presentation_outlines_text' = presentation_outlines_text \o chunk
    /\ UNCHANGED <<presentation, db, pc, events, additional_context, research_context,
                   final_context, n_slides_to_generate, generator_args, commits>>
    /\ UNCHANGED researchVars

\* lines 121-143, the generator delivering a text chunk
GeneratorChunk ==
    /\ pc = "generating"
    /\ Len(consumed) < MaxChunks
    /\ \E chunk \in Chunks :
          /\ consumed' = Append(consumed, [kind |-> "chunk", data |-> chunk])
          /\ Emit(ChunkEvent(chunk))
          /\ presentation_outlines_text' = presentation_outlines_text \o chunk
    /\ UNCHANGED <<presentation, db, pc, additional_context, research_context,
                   final_context, n_slides_to_generate, generator_args, commits>>
    /\ UNCHANGED researchVars

\* lines 121-136, the generator delivering an HTTPException
GeneratorErrorGoesOn ==
    /\ pc = "generating"
    /\ Len(consumed) < MaxChunks
    /\ \E detail \in ErrorDetails :
          /\ consumed' = Append(consumed, [kind |-> "error", data |-> detail])
          /\ Emit(ErrorEvent(detail))
    /\ UNCHANGED pc
    /\ UNCHANGED <<presentation, db, additional_context, research_context,
                   final_context, n_slides_to_generate, generator_args,
                   presentation_outlines_text, commits>>
    /\ UNCHANGED researchVars

GeneratorError ==
    /\ pc = "generating"
    /\ \E detail \in ErrorDetails :
          /\ consumed' = Append(consumed, [kind |-> "error", data |-> detail])
          /\ Emit(ErrorEvent(detail))
    /\ pc' = "done"
    /\ UNCHANGED <<presentation, db, additional_context, research_context,
                   final_context, n_slides_to_generate, generator_args,
                   presentation_outlines_text, commits>>
    /\ UNCHANGED researchVars

\* lines 148-157, the generator exhausted and the text not parseable
ParseFails ==
    /\ pc = "generating"
    /\ ParseOutcome(presentation_outlines_text) = "syntax"
    /\ Emit(ErrorEvent(ParseErrorDetail))
    /\ pc' = "done"
    /\ UNCHANGED <<presentation, db, additional_context, research_context,
                   final_context, n_slides_to_generate, generator_args, consumed,
                   presentation_outlines_text, commits>>
    /\ UNCHANGED researchVars

\* lines 148-161, PresentationOutlineModel rejecting the parsed value:
\* nothing catches it
ValidationRaises ==
    /\ pc = "generating"
    /\ ParseOutcome(presentation_outlines_text) = "invalid"
    /\ pc' = "aborted"
    /\ UNCHANGED <<presentation, db, events, additional_context, research_context,
                   final_context, n_slides_to_generate, generator_args, consumed,
                   presentation_outlines_text, commits>>
    /\ UNCHANGED researchVars

\* presentation_outlines.slides[:n_slides_to_generate]
TruncateOneTooMany(slides, n) == Slice(slides, n + 1)

Truncate(slides, n) == Slice(slides, n)

\* lines 148-175, up to the await of the commit
ParseAndStore ==
    /\ pc = "generating"
    /\ ParseOutcome(presentation_outlines_text) = "ok"
    /\ LET slides == Truncate(ParsedSlides(presentation_outlines_text),
                              n_slides_to_generate)
       IN presentation' = [presentation EXCEPT
                              !.outlines = <<slides>>,
                              !.title = <<TitleFromOutlines(slides)>>]
    /\ pc' = "committing"
    /\ UNCHANGED <<db, events, additional_context, research_context,
                   final_context, n_slides_to_generate, generator_args, consumed,
                   presentation_outlines_text, commits>>
    /\ UNCHANGED researchVars

CompleteWithoutCommit ==
    /\ pc = "committing"
    /\ Emit(CompleteEvent(presentation))
    /\ pc' = "done"
    /\ UNCHANGED <<presentation, db, commits, additional_context, research_context,
                   final_context, n_slides_to_generate, generator_args, consumed,
                   presentation_outlines_text>>
    /\ UNCHANGED researchVars

\* lines 176-181, the commit succeeding
Commit ==
    /\ pc = "committing"
    /\ db' = Stored(presentation)
    /\ commits' = commits + 1
    /\ Emit(CompleteEvent(presentation))
    /\ pc' = "done"
    /\ UNCHANGED <<presentation, additional_context, research_context,
                   final_context, n_slides_to_generate, generator_args, consumed,
                   presentation_outlines_text>>
    /\ UNCHANGED researchVars

\* line 176, the commit raising: nothing catches it
CommitRaises ==
    /\ pc = "committing"
    /\ pc' = "aborted"
    /\ UNCHANGED <<presentation, db, events, additional_context, research_context,
                   final_context, n_slides_to_generate, generator_args, consumed,
                   presentation_outlines_text, commits>>
    /\ UNCHANGED researchVars

----------------------------------------------------------------------------
(* Specifications *)

\* a request whose stream is not looked at
StreamIdle ==
    /\ presentation = [file_paths |-> <<>>, web_search |-> TRUE, n_slides |-> 1,
                       include_table_of_contents |-> FALSE,
                       outlines |-> <<>>, title |-> <<>>]
    /\ db = Stored(presentation)
    /\ pc = "researching"
    /\ events = <<>>
    /\ additional_context = <<>>
    /\ research_context = PyStr(<<>>)
    /\ final_context = <<>>
    /\ n_slides_to_generate = 0
    /\ generator_args = NotCalled
    /\ consumed = <<>>
    /\ presentation_outlines_text = <<>>
    /\ commits = 0

Init == StreamInit /\ ResearchInit

Next ==
    \/ Begin
    \/ LoadStatus
    \/ LoadDocuments
    \/ LoadDocumentsRaises
    \/ ResearchStatus
    \/ ResearchReturns
    \/ ResearchRaises
    \/ MergeRaises
    \/ StartGenerating
    \/ GeneratorChunk
    \/ GeneratorError
    \/ ParseFails
    \/ ValidationRaises
    \/ ParseAndStore
    \/ Commit
    \/ CommitRaises

\* one stream of stream_outlines
Spec == Init /\ [][Next]_vars

ResearchOnlyInit == ResearchInit /\ StreamIdle

ResearchNext ==
    \/ SearchTavily
    \/ SearchWikipedia
    \/ SearchArchive
    \/ Run

\* one call of AgenticResearchService.run
SpecResearch == ResearchOnlyInit /\ [][ResearchNext]_vars

----------------------------------------------------------------------------
(* Properties of one stream (Spec) *)

Terminal(e) == e.type \in {"error", "complete"}

TerminalPositions == {i \in 1..Len(events) : Terminal(events[i])}

Closed == pc \in {"done", "aborted"}

HasEvent(type) == \E i \in 1..Len(events) : events[i].type = type

IsChunkEvent(e) == e.type = "chunk"

\* C1: every stream that has ended emitted exactly one terminal event (Error
\* or Complete), and no event follows a terminal event.
C1_ExactlyOneTerminalEvent ==
    /\ \A i \in TerminalPositions : i = Len(events)
    /\ Closed => Cardinality(TerminalPositions) = 1

\* C2: the record is committed at most once per stream; a Complete event is
\* there if and only if the commit happened, and it carries the committed
\* outlines and title; a stream with an Error event has committed nothing.
C2_WriteOnceIffComplete ==
    /\ commits <= 1
    /\ HasEvent("complete") <=> commits = 1
    /\ commits = 0 => db.outlines = <<>> /\ db.title = <<>>
    /\ HasEvent("error") => commits = 0
    /\ \A i \in 1..Len(events) :
          events[i].type = "complete" =>
             /\ db.outlines # <<>>
             /\ db = Stored(events[i].value[1])
             /\ db = Stored(presentation)

C2_Witness ==
    /\ pc = "done"
    /\ commits = 1
    /\ events[Len(events)].type = "complete"
    /\ db.outlines[1] # <<>>

\* C3: the persisted slide sequence is the first min(p, t) slides of the
\* parsed output, p its number of slides and t the target slide count.
C3_TruncationLaw ==
    pc = "committing" \/ commits = 1 =>
        LET parsed == ParsedSlides(presentation_outlines_text)
            kept == presentation.outlines[1]
        IN /\ Len(kept) = Min(Len(parsed), n_slides_to_generate)
           /\ \A i \in 1..Len(kept) : kept[i] = parsed[i]
           /\ commits = 1 => db.outlines = <<kept>>

C3_Witness ==
    /\ commits = 1
    /\ n_slides_to_generate >= 1
    /\ Len(ParsedSlides(presentation_outlines_text)) > n_slides_to_generate
    /\ Len(db.outlines[1]) = n_slides_to_generate

\* k = ceil(x / 10), said without the division
IsCeilOfTenth(k, x) == 10 * k >= x /\ 10 * (k - 1) < x

\* C4: without a table of contents the target is the requested total; with
\* one, target = total - ceil((total - ceil((total - 1) / 10)) / 10), so
\* that 21 gives 19 and 10 gives 9; the generator is called with the target
\* that also bounds the truncation.
C4_TargetSlideCount ==
    generator_args # NotCalled =>
        LET n == presentation.n_slides
            t == n_slides_to_generate
        IN /\ generator_args[1].n_slides = t
           /\ ~presentation.include_table_of_contents => t = n
           /\ presentation.include_table_of_contents =>
                 \E toc_pages \in 0..n, reduction \in 0..n :
                    /\ IsCeilOfTenth(toc_pages, n - 1)
                    /\ IsCeilOfTenth(reduction, n - toc_pages)
                    /\ t = n - reduction
           /\ presentation.include_table_of_contents /\ n = 21 => t = 19
           /\ presentation.include_table_of_contents /\ n = 10 => t = 9
           /\ ~presentation.include_table_of_contents /\ n = 10 => t = 10
           /\ presentation.outlines # <<>> =>
                 Len(presentation.outlines[1]) <= generator_args[1].n_slides

C4_Witness ==
    /\ pc = "generating"
    /\ presentation.include_table_of_contents
    /\ presentation.n_slides = 21
    /\ generator_args # NotCalled
    /\ generator_args[1].n_slides = 19

\* C10: once the generator has delivered an error signal, that signal is the
\* last thing consumed, the stream is over with the Error event carrying the
\* signal's detail as its last event, the Chunk events are the chunks
\* delivered before the signal, and nothing was parsed or written.
C10_GeneratorErrorStops ==
    \A k \in 1..Len(consumed) :
        consumed[k].kind = "error" =>
            /\ k = Len(consumed)
            /\ pc = "done"
            /\ events # <<>>
            /\ events[Len(events)] = ErrorEvent(consumed[k].data)
            /\ TerminalPositions = {Len(events)}
            /\ LET forwarded == SelectSeq(events, IsChunkEvent)
               IN /\ Len(forwarded) = k - 1
                  /\ \A i \in 1..(k - 1) : forwarded[i].data = consumed[i].data
                  /\ k > 1 => events[Len(events) - 1] = ChunkEvent(consumed[k - 1].data)
            /\ presentation.outlines = <<>>
            /\ db.outlines = <<>>
            /\ commits = 0

C10_Witness ==
    /\ pc = "done"
    /\ Len(consumed) >= 2
    /\ consumed[Len(consumed)].kind = "error"
    /\ consumed[1].kind = "chunk"
    /\ events[Len(events)].type = "error"

----------------------------------------------------------------------------
(* Properties of one call of run (SpecResearch) *)

\* everything the adapters returned, in registration order
Concatenated ==
    results["tavily"].items \o results["wikipedia"].items \o results["archive"].items

SourceOf(item) == [title |-> item.title, url |-> item.url]

FirstWithUrl(url) ==
    CHOOSE k \in 1..Len(Concatenated) :
        /\ Concatenated[k].url = url
        /\ \A l \in 1..(k - 1) : Concatenated[l].url # url

EmptyUrlCount(s) == Cardinality({i \in 1..Len(s) : s[i].url = ""})

Failed(a) == outcome[a] \in {"status", "exc"}

\* C5: the returned sources hold each non-empty url once, and the entry of
\* a url is the first item with that url in the concatenated input.
C5_DedupKeepsFirst ==
    rpc = "returned" =>
        /\ \A i, j \in 1..Len(bundle.sources) :
              i < j /\ bundle.sources[i].url # "" =>
                 bundle.sources[i].url # bundle.sources[j].url
        /\ \A i \in 1..Len(bundle.sources) :
              bundle.sources[i].url # "" =>
                 /\ \E k \in 1..Len(Concatenated) :
                       Concatenated[k].url = bundle.sources[i].url
                 /\ bundle.sources[i] =
                       SourceOf(Concatenated[FirstWithUrl(bundle.sources[i].url)])
        /\ \A k \in 1..Len(Concatenated) :
              Concatenated[k].url # "" =>
                 \E i \in 1..Len(bundle.sources) :
                    bundle.sources[i].url = Concatenated[k].url

C5_Witness ==
    /\ rpc = "returned"
    /\ bundle.sources # <<>>
    /\ \E k, l \in 1..Len(Concatenated) :
          /\ k < l
          /\ Concatenated[k].url = Concatenated[l].url
          /\ Concatenated[k].url # ""
          /\ Concatenated[k].title # Concatenated[l].title

\* C6: every item with an empty url that an adapter returned has its own
\* entry in the returned sources.
C6_EmptyUrlItemsRetained ==
    rpc = "returned" =>
        EmptyUrlCount(bundle.sources) = EmptyUrlCount(Concatenated)

\* C7: when two adapters failed and the third returned at least one item,
\* the returned bundle is non-empty and built from the third's items only.
C7_OneSurvivorGivesBundle ==
    rpc = "returned" =>
        \A a \in Adapters :
            (/\ outcome[a] = "ok"
             /\ results[a].items # <<>>
             /\ \A b \in Adapters \ {a} : Failed(b))
            => /\ bundle.sources # <<>>
               /\ bundle.summary # <<>>
               /\ IsSubseq(bundle.sources,
                           [i \in 1..Len(results[a].items) |->
                               SourceOf(results[a].items[i])])

\* C8: run never raises, and when every adapter failed or returned no items
\* it returns the empty bundle.
C8_TotalFailureIsEmptyBundle ==
    /\ rpc # "raised"
    /\ ~bundle.raised
    /\ (rpc = "returned" /\ \A a \in Adapters : Failed(a) \/ results[a].items = <<>>)
          => bundle.summary = <<>> /\ bundle.sources = <<>>

C8_Witness ==
    /\ rpc = "returned"
    /\ \A a \in Adapters : Failed(a)
    /\ outcome["tavily"] = "exc"
    /\ outcome["archive"] = "status"

\* C9: whatever the completion order, the sources are items of the
\* concatenation in registration order, in that order, and the summary has
\* one block per source, block i carrying the title and url of source i.
C9_RegistrationOrder ==
    rpc = "returned" =>
        /\ IsSubseq(bundle.sources,
                    [i \in 1..Len(Concatenated) |-> SourceOf(Concatenated[i])])
        /\ bundle.sources = <<>> <=> bundle.summary = <<>>
        /\ bundle.sources # <<>> =>
              Len(bundle.summary) = 10 * Len(bundle.sources) - 1
        /\ \A i \in 1..Len(bundle.sources) :
              LET at == 10 * (i - 1)
              IN /\ bundle.summary[at + 1] = "Title: "
                 /\ bundle.summary[at + 2] = bundle.sources[i].title
                 /\ bundle.summary[at + 7] = "Source: "
                 /\ bundle.summary[at + 8] = bundle.sources[i].url
                 /\ i > 1 => bundle.summary[at] = "\n\n"

C9_Witness ==
    /\ rpc = "returned"
    /\ finished = <<"archive", "wikipedia", "tavily">>
    /\ Len(bundle.sources) >= 3
    /\ bundle.sources[1].title = "Web"
    /\ bundle.sources[Len(bundle.sources)].title = "Paper"

----------------------------------------------------------------------------
(* Failure paths of one stream (Spec) *)

HasStatus(message) == \E i \in 1..Len(events) : events[i] = Status(message)

NoErrorSignal == \A k \in 1..Len(consumed) : consumed[k].kind # "error"

RecordUnwritten == db.outlines = <<>> /\ db.title = <<>> /\ commits = 0

EndsWithError ==
    /\ events # <<>>
    /\ events[Len(events)].type = "error"
    /\ TerminalPositions = {Len(events)}

\* the generator was exhausted and its text is no outline
ParseRejected ==
    /\ Closed
    /\ generator_args # NotCalled
    /\ NoErrorSignal
    /\ ParseOutcome(presentation_outlines_text) # "ok"

\* C11: when the accumulated text is not parseable, or parses to a value
\* without the outline structure, the stream ends with exactly one Error
\* event that carries the cause, and the record is not written.
C11_UnparseableTextGivesError ==
    ParseRejected =>
        /\ EndsWithError
        /\ Len(events[Len(events)].data) = 2
        /\ events[Len(events)].data[1] = ParseErrorDetail[1]
        /\ RecordUnwritten

\* the stream ended in the loading of the attached files
ExtractionFailed ==
    /\ Closed
    /\ presentation.file_paths # <<>>
    /\ generator_args = NotCalled
    /\ ~HasStatus(StatusResearching)

\* C12: when the extraction of the attached files fails, the stream ends
\* with an Error event after the Status events, no Chunk event is emitted
\* and the record is not written.
C12_ExtractionFailureGivesError ==
    ExtractionFailed =>
        /\ EndsWithError
        /\ HasStatus(StatusLoading)
        /\ ~HasEvent("chunk")
        /\ RecordUnwritten

\* the outline was parsed and stored in the row, and the commit failed
PersistFailed ==
    /\ Closed
    /\ presentation.outlines # <<>>
    /\ commits = 0

\* C13: when the write of outline and title fails, the stream ends with an
\* Error event and no Complete event is emitted.
C13_PersistFailureGivesError ==
    PersistFailed =>
        /\ EndsWithError
        /\ ~HasEvent("complete")

\* C14: after the research stage raised, the failed-continuing Status
\* follows the research-starting Status, the research context is empty, the
\* stream goes on to the generator call, which gets the attachment text as
\* context, and no Error event comes before that call.
C14_ResearchFailureContinues ==
    HasStatus(StatusFailed) =>
        /\ presentation.web_search
        /\ research_context = PyStr(<<>>)
        /\ \A i \in 1..Len(events) :
              events[i] = Status(StatusFailed) =>
                 i > 1 /\ events[i - 1] = Status(StatusResearching)
        /\ generator_args = NotCalled =>
              /\ pc = "merge"
              /\ events[Len(events)] = Status(StatusFailed)
              /\ ENABLED StartGenerating
        /\ generator_args # NotCalled =>
              /\ generator_args[1].context = additional_context
              /\ final_context = additional_context

C14_Witness ==
    /\ HasStatus(StatusFailed)
    /\ pc = "generating"
    /\ additional_context # <<>>
    /\ generator_args # NotCalled
    /\ generator_args[1].context = additional_context
    /\ ~HasEvent("error")

----------------------------------------------------------------------------
(* Research outcome, context and chunk forwarding of one stream (Spec) *)

ResearchLabel == <<"External Research Context:\n">>

\* the research text the stream holds: the summary of the returned bundle
ResearchText ==
    IF research_context.kind = "dict" THEN research_context.summary
    ELSE research_context.text

\* C15: with research text, the generator's context is the labelled
\* research section followed by the attachment text; without research text
\* it is the attachment text; a stream whose research returned goes on to
\* the generator call.
C15_ContextPassedToGenerator ==
    /\ research_context.kind = "dict" /\ generator_args = NotCalled => pc = "merge"
    /\ research_context.kind = "dict" /\ pc = "merge" => ENABLED StartGenerating
    /\ generator_args # NotCalled =>
          IF ResearchText # <<>>
          THEN generator_args[1].context =
                  ResearchLabel \o ResearchText
                  \o (IF additional_context # <<>>
                      THEN <<"\n\n">> \o additional_context ELSE <<>>)
          ELSE generator_args[1].context = additional_context

IsChunkDelivery(d) == d.kind = "chunk"

\* C16: the Chunk events are the chunks the generator delivered, in order,
\* in every state (so each is emitted before the next is asked for), and
\* the accumulated text is the concatenation of the Chunk events' text.
C16_ChunksForwardedInOrder ==
    LET forwarded == SelectSeq(events, IsChunkEvent)
        delivered == SelectSeq(consumed, IsChunkDelivery)
    IN /\ Len(forwarded) = Len(delivered)
       /\ \A i \in 1..Len(forwarded) : forwarded[i].data = delivered[i].data
       /\ presentation_outlines_text =
             Flatten([i \in 1..Len(forwarded) |-> forwarded[i].data])
       /\ \A i, j \in 1..Len(events) :
             i < j /\ events[i].type = "chunk" => events[j].type # "status"

C16_Witness ==
    /\ pc = "committing"
    /\ Len(consumed) = 3
    /\ Len(SelectSeq(events, IsChunkEvent)) = 3
    /\ presentation_outlines_text =
          <<OpenOutline, "slide a", "slide b", "slide c", CloseOutline>>

IsOutcomeStatus(e) ==
    e \in {Status(StatusFound), Status(StatusNoneFound), Status(StatusFailed)}

EmptyBundleReturned ==
    /\ research_context.kind = "dict"
    /\ research_context.summary = <<>>
    /\ research_context.sources = <<>>

\* C17: after the research-starting Status comes exactly one outcome
\* Status: found only for a non-empty bundle, none-found for the empty
\* bundle, failed-continuing only when the stage raised.
C17_OutcomeStatusMatches ==
    LET outcomes == SelectSeq(events, IsOutcomeStatus) IN
    /\ Len(outcomes) <= 1
    /\ HasStatus(StatusResearching) /\ pc # "researching" => Len(outcomes) = 1
    /\ \A i \in 1..Len(events) :
          IsOutcomeStatus(events[i]) =>
             i > 1 /\ events[i - 1] = Status(StatusResearching)
    /\ HasStatus(StatusFound) =>
          /\ research_context.kind = "dict"
          /\ research_context.summary # <<>>
          /\ research_context.sources # <<>>
    /\ EmptyBundleReturned => HasStatus(StatusNoneFound)
    /\ HasStatus(StatusNoneFound) => EmptyBundleReturned
    /\ HasStatus(StatusFailed) => research_context.kind = "str"

----------------------------------------------------------------------------
(* Slide-count arithmetic of one stream (Spec) *)

WithToc == generator_args # NotCalled /\ presentation.include_table_of_contents

\* some content count c, with the pages listing c entries at 10 a page,
\* adds up to total
SomeContentCountFits(total) ==
    \E c \in 0..total : IsCeilOfTenth(total - c, c)

\* C18 as stated: with a table of contents and a requested total of at
\* least 2, the reduction is ceil(content_slides / 10).
C18_ReductionIsTocPagesOfContent ==
    WithToc /\ presentation.n_slides >= 2 =>
        IsCeilOfTenth(presentation.n_slides - n_slides_to_generate,
                      n_slides_to_generate)

\* C18 as amended: in the checked range the reduction is
\* ceil(content_slides / 10) for every requested total of at least 2 other
\* than 12; for 12 no content count fits, the target is 11 and the
\* reduction is 1, one less than the 2 pages that 11 entries need.
C18_ReductionIsTocPagesUnlessNoneFits ==
    WithToc /\ presentation.n_slides >= 2 =>
        LET n == presentation.n_slides
            t == n_slides_to_generate
        IN IF n = 12
           THEN /\ ~SomeContentCountFits(n)
                /\ t = 11
                /\ IsCeilOfTenth(n - t + 1, t)
           ELSE /\ IsCeilOfTenth(n - t, t)
                /\ SomeContentCountFits(n)

C18_Witness ==
    /\ WithToc
    /\ pc = "generating"
    /\ presentation.n_slides = 13
    /\ n_slides_to_generate = 11

\* C20 as stated: for every requested total of at least 1 the target is at
\* least 1 and at most the total, and truncation leaves a non-empty parsed
\* outline non-empty.
C20_TargetAtLeastOne ==
    generator_args # NotCalled =>
        /\ n_slides_to_generate >= 1
        /\ n_slides_to_generate <= presentation.n_slides
        /\ presentation.outlines # <<>>
           /\ ParsedSlides(presentation_outlines_text) # <<>>
              => presentation.outlines[1] # <<>>

\* C20 as amended: the target is between 1 and the requested total for
\* every total of at least 2, and for a total of 1 without a table of
\* contents; for a total of 1 with a table of contents the target is 0 and
\* truncation empties the outline.  With a target of at least 1 truncation
\* leaves a non-empty parsed outline non-empty.
C20_TargetAtLeastOneUnlessSingleWithToc ==
    generator_args # NotCalled =>
        LET n == presentation.n_slides
            t == n_slides_to_generate
        IN /\ t <= n
           /\ IF n = 1 /\ presentation.include_table_of_contents
              THEN /\ t = 0
                   /\ presentation.outlines # <<>> => presentation.outlines[1] = <<>>
              ELSE /\ t >= 1
                   /\ presentation.outlines # <<>>
                      /\ ParsedSlides(presentation_outlines_text) # <<>>
                         => presentation.outlines[1] # <<>>

C20_Witness ==
    /\ commits = 1
    /\ presentation.include_table_of_contents
    /\ presentation.n_slides = 2
    /\ n_slides_to_generate = 1
    /\ Len(ParsedSlides(presentation_outlines_text)) >= 2
    /\ Len(db.outlines[1]) = 1

----------------------------------------------------------------------------
(* Client disconnect: the event generator is cancelled where it is suspended *)

\* the positions at which the generator is suspended (at a yield, or awaiting
\* the loader, the research or the next chunk) before line 170
SuspendedBeforePersisting ==
    {"start", "attachments", "loading", "research", "researching", "merge",
     "generating"}

CancelSavesAccumulatedText ==
    /\ pc \in SuspendedBeforePersisting
    /\ pc' = "cancelled"
    /\ db' = [outlines |-> <<presentation_outlines_text>>,
              title |-> <<TitleFromOutlines(presentation_outlines_text)>>]
    /\ commits' = commits + 1
    /\ UNCHANGED <<presentation, events, additional_context, research_context,
                   final_context, n_slides_to_generate, generator_args, consumed,
                   presentation_outlines_text>>
    /\ UNCHANGED researchVars

\* the cancellation is raised at the suspension point; inner has no
\* try/finally, so the generator just ends
Cancel ==
    /\ pc \in SuspendedBeforePersisting
    /\ pc' = "cancelled"
    /\ UNCHANGED <<presentation, db, events, additional_context, research_context,
                   final_context, n_slides_to_generate, generator_args, consumed,
                   presentation_outlines_text, commits>>
    /\ UNCHANGED researchVars

\* line 176, cancelled while the commit is awaited: the database has or has
\* not applied it
CancelDuringCommit ==
    /\ pc = "committing"
    /\ pc' = "cancelled in commit"
    /\ \E applied \in BOOLEAN :
          IF applied
          THEN db' = Stored(presentation) /\ commits' = commits + 1
          ELSE UNCHANGED <<db, commits>>
    /\ UNCHANGED <<presentation, events, additional_context, research_context,
                   final_context, n_slides_to_generate, generator_args, consumed,
                   presentation_outlines_text>>
    /\ UNCHANGED researchVars

NextWithDisconnect ==
    \/ Next
    \/ Cancel
    \/ CancelDuringCommit

\* one stream whose client may disconnect
SpecDisconnect == Init /\ [][NextWithDisconnect]_vars

\* C19: a cancellation before the Persisting step leaves the record as it
\* was and emits nothing, and once cancelled the stream does nothing more:
\* no event, no write.
C19_DisconnectBeforePersisting ==
    [][/\ pc = "cancelled" => pc' = "cancelled"
       /\ pc' = "cancelled" =>
             /\ events' = events
             /\ db' = db
             /\ presentation' = presentation
             /\ commits' = 0
             /\ db'.outlines = <<>>
             /\ presentation'.outlines = <<>>]_vars

C19_Witness ==
    /\ pc = "cancelled"
    /\ HasEvent("chunk")
    /\ presentation_outlines_text # <<>>
    /\ HasStatus(StatusLoading)

====
